---- MODULE Spec2Model ----
(***************************************************************************)
(* Model of the GenBank feature-location parser (LocationStringParser,     *)
(* its private parse-tree node classes) and of Seq.subseq.                 *)
(*                                                                         *)
(* Strings are sequences of one-character strings.  The parse tree is an   *)
(* arena: nodes[i] is the i-th Node object created by the parse call,      *)
(* node 1 is the root, and 0 stands for JavaScript's null.                 *)
(***************************************************************************)
EXTENDS Integers, Sequences, FiniteSets, TLC

VARIABLES
    input,        \* locationString handed to parse()
    term,         \* the grammar term the input was rendered from (NoTerm otherwise)
    rest,         \* locationString argument of the current recursivelyParse_ activation
    nodes,        \* the Node objects created so far
    cur,          \* parentNode argument of the current activation (0 = null)
    pc,           \* "parse" | "reduce" | "done" | "error" | "seq"
    err,          \* message of the error thrown ("" while none)
    result,       \* value returned by parse()
    depth,        \* number of recursivelyParse_ activations on the call stack
    sequence_,    \* Seq.sequence_
    isCircular_,  \* Seq.isCircular_
    ret           \* outcome of the last Seq.subseq call

vars == <<input, term, rest, nodes, cur, pc, err, result, depth,
          sequence_, isCircular_, ret>>

parserVars == <<input, term, rest, nodes, cur, pc, err, result, depth>>
seqVars == <<sequence_, isCircular_, ret>>

----------------------------------------------------------------------------
(* Bounds of the model *)

MaxTermNodes == 4
MaxLeafLen == 4
MaxPieces == 4
MaxSeqLen == 3

----------------------------------------------------------------------------
(* Character classes used by the parser's regular expressions *)

Digits == {"0", "1", "2", "3", "4", "5", "6", "7", "8", "9"}

Letters == {"a", "b", "c", "d", "e", "f", "g", "h", "i", "j", "k", "l", "m",
            "n", "o", "p", "q", "r", "s", "t", "u", "v", "w", "x", "y", "z",
            "A", "B", "C", "D", "E", "F", "G", "H", "I", "J", "K", "L", "M",
            "N", "O", "P", "Q", "R", "S", "T", "U", "V", "W", "X", "Y", "Z"}

AlNum == Letters \cup Digits

AccessionChars == AlNum \cup {".", "_"}

LocationChars == Digits \cup {"<", ">", ".", "^"}

EndChars == {",", ")"}

ComplementPrefix == <<"c", "o", "m", "p", "l", "e", "m", "e", "n", "t", "(">>

JoinPrefix == <<"j", "o", "i", "n", "(">>

OrderPrefix == <<"o", "r", "d", "e", "r", "(">>

----------------------------------------------------------------------------
(* JavaScript string primitives *)

\* /^prefix/.test(s)
StartsWith(s, p) == Len(s) >= Len(p) /\ SubSeq(s, 1, Len(p)) = p

\* s.substr(n)
substr(s, n) == SubSeq(s, n + 1, Len(s))

\* s[0] === c
FirstIs(s, c) == Len(s) > 0 /\ s[1] = c

\* /^\d+$/.test(s)
AllDigits(s) == Len(s) > 0 /\ \A i \in 1..Len(s) : s[i] \in Digits

DigitValue(c) ==
    CASE c = "0" -> 0 [] c = "1" -> 1 [] c = "2" -> 2 [] c = "3" -> 3
      [] c = "4" -> 4 [] c = "5" -> 5 [] c = "6" -> 6 [] c = "7" -> 7
      [] c = "8" -> 8 [] c = "9" -> 9

\* parseInt(s) for a string of decimal digits
RECURSIVE parseInt(_)
parseInt(s) ==
    IF Len(s) = 0 THEN 0
    ELSE 10 * parseInt(SubSeq(s, 1, Len(s) - 1)) + DigitValue(s[Len(s)])

\* s.indexOf(c) as a 1-based index, 0 when c does not occur
IndexOf(s, c) ==
    IF \E i \in 1..Len(s) : s[i] = c
    THEN CHOOSE i \in 1..Len(s) : s[i] = c /\ \A j \in 1..(i - 1) : s[j] # c
    ELSE 0

\* 1-based index of the first occurrence of '..' in s, 0 when there is none
IndexOfDotDot(s) ==
    IF \E i \in 1..(Len(s) - 1) : s[i] = "." /\ s[i + 1] = "."
    THEN CHOOSE i \in 1..(Len(s) - 1) :
            /\ s[i] = "." /\ s[i + 1] = "."
            /\ \A j \in 1..(i - 1) : ~(s[j] = "." /\ s[j + 1] = ".")
    ELSE 0

\* s.split('..')
RECURSIVE SplitDotDot(_)
SplitDotDot(s) ==
    LET i == IndexOfDotDot(s)
    IN  IF i = 0 THEN <<s>>
        ELSE <<SubSeq(s, 1, i - 1)>> \o SplitDotDot(SubSeq(s, i + 2, Len(s)))

----------------------------------------------------------------------------
(* Position and location values *)

undefined == <<>>

null == <<"null">>

LocationPoint(n) == <<"LocationPoint", n>>

BetweenLocationPoint(a, b) == <<"BetweenLocationPoint", a, b>>

BoundedLocationPoint(a, b) == <<"BoundedLocationPoint", a, b>>

FuzzyLocationPoint(op, n) == <<"FuzzyLocationPoint", op, n>>

hasDefiniteStart(p) == IF p[1] = "FuzzyLocationPoint" THEN p[2] = ">" ELSE TRUE

hasDefiniteStop(p) == IF p[1] = "FuzzyLocationPoint" THEN p[2] = "<" ELSE TRUE

lowerBound(p) == IF p[1] = "FuzzyLocationPoint" THEN p[3] ELSE p[2]

upperBound(p) == IF p[1] = "LocationPoint" THEN p[2] ELSE p[3]

Location(start, stop, accession) == <<"Location", start, stop, accession>>

ComplementLocation(inner) == <<"ComplementLocation", inner>>

JoinLocation(locations) == <<"JoinLocation", locations>>

----------------------------------------------------------------------------
(* LocationStringParser.parseLocationPoint_ and parseLocation_ *)

\* /^\d+[.^]\d+$/ : index of the separator, 0 when the text does not match
SeparatorIndex(s) ==
    IF \E i \in 2..(Len(s) - 1) :
            /\ s[i] \in {".", "^"}
            /\ AllDigits(SubSeq(s, 1, i - 1))
            /\ AllDigits(SubSeq(s, i + 1, Len(s)))
    THEN CHOOSE i \in 2..(Len(s) - 1) :
            /\ s[i] \in {".", "^"}
            /\ AllDigits(SubSeq(s, 1, i - 1))
            /\ AllDigits(SubSeq(s, i + 1, Len(s)))
    ELSE 0

\* Variant of parseLocationPoint_: the endpoints of a^b and a.b are put in
\* ascending order.
parseLocationPoint__Sorts(locationPointText) ==
    LET s == locationPointText
        i == SeparatorIndex(s)
    IN  IF AllDigits(s) THEN LocationPoint(parseInt(s))
        ELSE IF i > 0 THEN
            LET isBetween == IndexOf(s, "^") > 0
                p0 == parseInt(SubSeq(s, 1, i - 1))
                p1 == parseInt(SubSeq(s, i + 1, Len(s)))
                lo == IF p0 <= p1 THEN p0 ELSE p1
                hi == IF p0 <= p1 THEN p1 ELSE p0
            IN  IF isBetween THEN BetweenLocationPoint(lo, hi)
                ELSE BoundedLocationPoint(lo, hi)
        ELSE IF Len(s) > 1 /\ s[1] \in {"<", ">"} /\ AllDigits(substr(s, 1))
            THEN FuzzyLocationPoint(s[1], parseInt(substr(s, 1)))
        ELSE null

parseLocationPoint_(locationPointText) ==
    LET s == locationPointText
        i == SeparatorIndex(s)
    IN  IF AllDigits(s) THEN LocationPoint(parseInt(s))
        ELSE IF i > 0 THEN
            LET isBetween == IndexOf(s, "^") > 0
                p0 == parseInt(SubSeq(s, 1, i - 1))
                p1 == parseInt(SubSeq(s, i + 1, Len(s)))
            IN  IF isBetween THEN BetweenLocationPoint(p0, p1)
                ELSE BoundedLocationPoint(p0, p1)
        ELSE IF Len(s) > 1 /\ s[1] \in {"<", ">"} /\ AllDigits(substr(s, 1))
            THEN FuzzyLocationPoint(s[1], parseInt(substr(s, 1)))
        ELSE null

\* Variant of parseLocation_: a lone '<n' keeps the fuzzy point as start and
\* gets a synthesized stop, as a lone '>n' does.
parseLocation__NoSwap(locationText, optAccession) ==
    LET parts == SplitDotDot(locationText)
        startLocationPoint == parseLocationPoint_(parts[1])
    IN  IF startLocationPoint = null THEN null
        ELSE IF Len(parts) > 1 THEN
            LET stopLocationPoint == parseLocationPoint_(parts[2])
            IN  IF stopLocationPoint # null
                THEN Location(startLocationPoint, stopLocationPoint, optAccession)
                ELSE null
        ELSE IF hasDefiniteStart(startLocationPoint)
                /\ hasDefiniteStop(startLocationPoint)
            THEN Location(startLocationPoint, startLocationPoint, optAccession)
        ELSE IF hasDefiniteStart(startLocationPoint)
            THEN Location(startLocationPoint,
                          LocationPoint(lowerBound(startLocationPoint)),
                          optAccession)
        ELSE IF hasDefiniteStop(startLocationPoint)
            THEN Location(startLocationPoint,
                          LocationPoint(upperBound(startLocationPoint)),
                          optAccession)
        ELSE null

parseLocation_(locationText, optAccession) ==
    LET parts == SplitDotDot(locationText)
        startLocationPoint == parseLocationPoint_(parts[1])
    IN  IF startLocationPoint = null THEN null
        ELSE IF Len(parts) > 1 THEN
            LET stopLocationPoint == parseLocationPoint_(parts[2])
            IN  IF stopLocationPoint # null
                THEN Location(startLocationPoint, stopLocationPoint, optAccession)
                ELSE null
        ELSE IF hasDefiniteStart(startLocationPoint)
                /\ hasDefiniteStop(startLocationPoint)
            THEN Location(startLocationPoint, startLocationPoint, optAccession)
        ELSE IF hasDefiniteStart(startLocationPoint)
            THEN Location(startLocationPoint,
                          LocationPoint(lowerBound(startLocationPoint)),
                          optAccession)
        ELSE IF hasDefiniteStop(startLocationPoint)
            THEN Location(LocationPoint(upperBound(startLocationPoint)),
                          startLocationPoint, optAccession)
        ELSE null

----------------------------------------------------------------------------
(* The leaf pattern of recursivelyParse_:                                   *)
(* /^(?:([A-Za-z0-9](?:[A-Za-z0-9._]*[A-Za-z0-9])?):)?([<>0-9.^]+?)([,)]|$)/ *)

NoMatch == [matched |-> FALSE, length |-> 0, accession |-> undefined,
            locationText |-> <<>>, endCharacter |-> ""]

\* Length of the accession when s starts with "accession:", 0 otherwise.
\* ':' is no accession character, so the accession ends at the first ':'.
AccessionLength(s) ==
    LET colon == IndexOf(s, ":")
    IN  IF /\ colon >= 2
           /\ s[1] \in AlNum
           /\ s[colon - 1] \in AlNum
           /\ \A i \in 1..(colon - 1) : s[i] \in AccessionChars
        THEN colon - 1
        ELSE 0

\* Length of the longest run of location characters of s after the first
\* `from` characters.
LocationRun(s, from) ==
    IF from < Len(s) /\ s[from + 1] \in LocationChars
    THEN (CHOOSE n \in 1..(Len(s) - from) :
            /\ \A i \in 1..n : s[from + i] \in LocationChars
            /\ (from + n = Len(s) \/ s[from + n + 1] \notin LocationChars))
    ELSE 0

\* Groups 2 and 3 matched after the first `from` characters of s: the lazy
\* run stops at the first ',' or ')' or at the end of the string, none of
\* which is a location character.
MatchLocationAt(s, from, accession) ==
    LET n == LocationRun(s, from)
    IN  IF n = 0 THEN NoMatch
        ELSE IF from + n = Len(s)
            THEN [matched |-> TRUE, length |-> from + n, accession |-> accession,
                  locationText |-> SubSeq(s, from + 1, from + n),
                  endCharacter |-> ""]
        ELSE IF s[from + n + 1] \in EndChars
            THEN [matched |-> TRUE, length |-> from + n + 1,
                  accession |-> accession,
                  locationText |-> SubSeq(s, from + 1, from + n),
                  endCharacter |-> s[from + n + 1]]
        ELSE NoMatch

\* Variant of LeafMatch: the accession is consumed but not captured.
LeafMatch_DropsAccession(s) ==
    LET a == AccessionLength(s)
        withAccession ==
            IF a > 0 THEN MatchLocationAt(s, a + 1, undefined) ELSE NoMatch
    IN  IF withAccession.matched THEN withAccession
        ELSE MatchLocationAt(s, 0, undefined)

\* The alternative with the accession group is tried first; the regular
\* expression backtracks to the alternative without it.
LeafMatch(s) ==
    LET a == AccessionLength(s)
        withAccession ==
            IF a > 0 THEN MatchLocationAt(s, a + 1, SubSeq(s, 1, a)) ELSE NoMatch
    IN  IF withAccession.matched THEN withAccession
        ELSE MatchLocationAt(s, 0, undefined)

----------------------------------------------------------------------------
(* Parse-tree nodes: Node, ComplementNode, JoinNode, OrderNode, LocationNode *)

Node(kind, location) ==
    [kind |-> kind, parent_ |-> 0, children_ |-> <<>>, location_ |-> location]

hasChildren(n) == Len(n.children_) > 0

isRoot(n) == n.parent_ = 0

TypeErrorMessage == "TypeError: cannot read property of null"

ComplementPushMessage == "complement nodes may only have one child"

LocationPushMessage == "location nodes may not have children"

\* Variant of PushError: a Complement node accepts any number of children.
PushError_NoComplementLimit(ns, parentNode) ==
    IF parentNode = 0 THEN TypeErrorMessage
    ELSE IF ns[parentNode].kind = "leaf" THEN LocationPushMessage
    ELSE ""

\* The error parentNode.push(child) throws, "" when the push succeeds.
PushError(ns, parentNode) ==
    IF parentNode = 0 THEN TypeErrorMessage
    ELSE IF ns[parentNode].kind = "complement" /\ hasChildren(ns[parentNode])
        THEN ComplementPushMessage
    ELSE IF ns[parentNode].kind = "leaf" THEN LocationPushMessage
    ELSE ""

\* Variant of push: the child's parent pointer is not set.
push_KeepsParent(ns, parentNode, childNode) ==
    LET id == Len(ns) + 1
        attached == Append(ns, childNode)
    IN  [attached EXCEPT ![parentNode].children_ = Append(@, id)]

\* Variant of push: the child is put in front of its siblings.
push_Prepends(ns, parentNode, childNode) ==
    LET id == Len(ns) + 1
        attached == Append(ns, [childNode EXCEPT !.parent_ = parentNode])
    IN  [attached EXCEPT ![parentNode].children_ = <<id>> \o @]

\* Node.push of a newly created child: the arena after the push.
push(ns, parentNode, childNode) ==
    LET id == Len(ns) + 1
        attached == Append(ns, [childNode EXCEPT !.parent_ = parentNode])
    IN  [attached EXCEPT ![parentNode].children_ = Append(@, id)]

Thrown(message) == <<"throw", message>>

IsThrown(v) == v[1] = "throw"

\* location() of node i, by class: the reduced value or the error thrown.
RECURSIVE location(_, _)
location(ns, i) ==
    LET n == ns[i]
        children == [k \in 1..Len(n.children_) |-> location(ns, n.children_[k])]
        failed == {k \in 1..Len(n.children_) : IsThrown(children[k])}
        firstFailed == CHOOSE k \in failed : \A j \in failed : k <= j
    IN  CASE n.kind = "root" ->
                IF ~hasChildren(n) THEN Thrown("AssertionError")
                ELSE IF ~isRoot(n) THEN Thrown("AssertionError")
                ELSE location(ns, n.children_[1])
          [] n.kind = "complement" ->
                IF Len(n.children_) # 1
                THEN Thrown("complement nodes must have one and only have one child")
                ELSE IF IsThrown(children[1]) THEN children[1]
                ELSE ComplementLocation(children[1])
          [] n.kind = "join" ->
                IF ~hasChildren(n)
                THEN Thrown("join nodes must have at least one child")
                ELSE IF failed # {} THEN children[firstFailed]
                ELSE JoinLocation(children)
          [] n.kind = "order" ->
                IF ~hasChildren(n)
                THEN Thrown("order nodes must have at least one child")
                ELSE IF failed # {} THEN children[firstFailed]
                ELSE JoinLocation(children)
          [] n.kind = "leaf" -> n.location_

----------------------------------------------------------------------------
(* Inputs of parse(): rendered grammar terms, leaf texts, piece strings *)

NoTerm == <<"none", <<>>>>

\* Well-formed leaves with the Location each denotes.
TermLeaves ==
    { [text |-> <<"1", ".", ".", "2">>,
       value |-> Location(LocationPoint(1), LocationPoint(2), undefined)],
      [text |-> <<"<", "3">>,
       value |-> Location(LocationPoint(3), FuzzyLocationPoint("<", 3), undefined)],
      [text |-> <<"A", ":", "4", "5">>,
       value |-> Location(LocationPoint(45), LocationPoint(45), <<"A">>)] }

Operators == {"complement", "join", "order"}

\* Terms with exactly n nodes, and non-empty sequences of terms with n nodes
\* in total.  A term is <<"leaf", l>> or <<operator, children>>.
RECURSIVE TermsOfSize(_), ForestsOfSize(_)
TermsOfSize(n) ==
    IF n = 1 THEN {<<"leaf", l>> : l \in TermLeaves}
    ELSE {<<op, f>> : op \in Operators, f \in ForestsOfSize(n - 1)}

ForestsOfSize(n) ==
    UNION { IF i = n THEN {<<t>> : t \in TermsOfSize(i)}
            ELSE {<<t>> \o f : t \in TermsOfSize(i), f \in ForestsOfSize(n - i)}
          : i \in 1..n }

Terms == UNION {TermsOfSize(n) : n \in 1..MaxTermNodes}

OperatorPrefix(op) ==
    CASE op = "complement" -> ComplementPrefix
      [] op = "join" -> JoinPrefix
      [] op = "order" -> OrderPrefix

\* The location string of a term, by the grammar of the feature table.
RECURSIVE Render(_), RenderList(_)
Render(t) ==
    IF t[1] = "leaf" THEN t[2].text
    ELSE OperatorPrefix(t[1]) \o RenderList(t[2]) \o <<")">>

RenderList(f) ==
    IF Len(f) = 1 THEN Render(f[1])
    ELSE Render(f[1]) \o <<",">> \o RenderList(Tail(f))

\* Strings of at most n characters over the alphabet S.
RECURSIVE StringsOver(_, _)
StringsOver(S, n) ==
    IF n = 0 THEN {<<>>}
    ELSE LET shorter == StringsOver(S, n - 1)
         IN  shorter \cup {Append(s, c) : s \in shorter, c \in S}

\* Concatenations of at most n pieces of P.
RECURSIVE Concatenations(_, _)
Concatenations(P, n) ==
    IF n = 0 THEN {<<>>}
    ELSE LET shorter == Concatenations(P, n - 1)
         IN  shorter \cup {s \o q : s \in shorter, q \in P}

LeafAlphabet == {"1", "2", ".", "^", "<", ">"}

AccessionPrefixes == {<<>>, <<"A", ".", "1", ":">>}

LeafInputs ==
    {a \o s : a \in AccessionPrefixes, s \in StringsOver(LeafAlphabet, MaxLeafLen)}

Pieces == {ComplementPrefix, JoinPrefix, <<",">>, <<")">>, <<"1">>,
           <<".", ".">>, <<"A", ":">>, <<"x">>}

PieceInputs == Concatenations(Pieces, MaxPieces)

Cases ==
    {<<t, Render(t)>> : t \in Terms}
        \cup {<<NoTerm, s>> : s \in LeafInputs \cup PieceInputs}

----------------------------------------------------------------------------
(* LocationStringParser.parse and recursivelyParse_ *)

\* parse(): the root node is created and recursivelyParse_ is entered.
Init ==
    /\ \E c \in Cases : term = c[1] /\ input = c[2] /\ rest = c[2]
    /\ nodes = <<Node("root", undefined)>>
    /\ cur = 1
    /\ pc = "parse"
    /\ err = ""
    /\ result = undefined
    /\ depth = 1
    /\ sequence_ = <<>>
    /\ isCircular_ = FALSE
    /\ ret = <<"none">>

Throw(message) ==
    /\ pc' = "error"
    /\ err' = message
    /\ depth' = 0
    /\ UNCHANGED <<input, term, rest, nodes, cur, result>>

\* Variant of Return: an unmatched remainder is an error.
Return_Throws ==
    /\ pc' = "error"
    /\ err' = "Error"
    /\ depth' = 0
    /\ UNCHANGED <<input, term, rest, nodes, cur, result>>

\* The outermost activation returns to parse().
Return ==
    /\ pc' = "reduce"
    /\ depth' = 0
    /\ UNCHANGED <<input, term, rest, nodes, cur, err, result>>

\* this.recursivelyParse_(locationString, parentNode)
Recurse(locationString, parentNode) ==
    /\ rest' = locationString
    /\ cur' = parentNode
    /\ depth' = depth + 1
    /\ UNCHANGED <<input, term, pc, err, result>>

IsComplement(s) == StartsWith(s, ComplementPrefix)

IsJoin(s) == ~IsComplement(s) /\ StartsWith(s, JoinPrefix)

IsOrder(s) == ~IsComplement(s) /\ ~IsJoin(s) /\ StartsWith(s, OrderPrefix)

IsOperator(s) == IsComplement(s) \/ IsJoin(s) \/ IsOrder(s)

IsComma(s) == ~IsOperator(s) /\ FirstIs(s, ",")

IsCloseParen(s) == ~IsOperator(s) /\ ~IsComma(s) /\ FirstIs(s, ")")

IsOther(s) == ~IsOperator(s) /\ ~IsComma(s) /\ ~IsCloseParen(s)

ParseOperator(kind, prefix) ==
    IF PushError(nodes, cur) # ""
    THEN Throw(PushError(nodes, cur))
    ELSE /\ nodes' = push(nodes, cur, Node(kind, undefined))
         /\ Recurse(substr(rest, Len(prefix)), Len(nodes) + 1)

ParseComplement ==
    /\ pc = "parse"
    /\ IsComplement(rest)
    /\ ParseOperator("complement", ComplementPrefix)
    /\ UNCHANGED seqVars

ParseJoin ==
    /\ pc = "parse"
    /\ IsJoin(rest)
    /\ ParseOperator("join", JoinPrefix)
    /\ UNCHANGED seqVars

ParseOrder ==
    /\ pc = "parse"
    /\ IsOrder(rest)
    /\ ParseOperator("order", OrderPrefix)
    /\ UNCHANGED seqVars

\* Variant of ParseComma: the ',' is left in the remaining input.
ParseComma_KeepsInput ==
    /\ pc = "parse"
    /\ IsComma(rest)
    /\ Recurse(rest, cur)
    /\ UNCHANGED nodes
    /\ UNCHANGED seqVars

ParseComma ==
    /\ pc = "parse"
    /\ IsComma(rest)
    /\ Recurse(substr(rest, 1), cur)
    /\ UNCHANGED nodes
    /\ UNCHANGED seqVars

\* Variant of ParseCloseParen: the ')' is left in the remaining input.
ParseCloseParen_KeepsInput ==
    /\ pc = "parse"
    /\ IsCloseParen(rest)
    /\ IF cur = 0
       THEN Throw(TypeErrorMessage)
       ELSE Recurse(rest, nodes[cur].parent_) /\ UNCHANGED nodes
    /\ UNCHANGED seqVars

ParseCloseParen ==
    /\ pc = "parse"
    /\ IsCloseParen(rest)
    /\ IF cur = 0
       THEN Throw(TypeErrorMessage)
       ELSE Recurse(substr(rest, 1), nodes[cur].parent_) /\ UNCHANGED nodes
    /\ UNCHANGED seqVars

\* Variant of ParseLeaf: after a leaf followed by ',' the leaf itself is
\* passed on as the parent.
ParseLeaf_DescendsIntoLeaf ==
    /\ pc = "parse"
    /\ IsOther(rest)
    /\ LeafMatch(rest).matched
    /\ LET matches == LeafMatch(rest)
           remainingLocationString == substr(rest, matches.length)
           loc == parseLocation_(matches.locationText, matches.accession)
       IN  IF loc = null THEN Throw("Error")
           ELSE IF PushError(nodes, cur) # "" THEN Throw(PushError(nodes, cur))
           ELSE /\ nodes' = push(nodes, cur, Node("leaf", loc))
                /\ IF matches.endCharacter = ")"
                   THEN Recurse(remainingLocationString, nodes[cur].parent_)
                   ELSE IF matches.endCharacter = ","
                   THEN Recurse(remainingLocationString, Len(nodes) + 1)
                   ELSE /\ pc' = "reduce"
                        /\ depth' = 0
                        /\ UNCHANGED <<input, term, rest, cur, err, result>>
    /\ UNCHANGED seqVars

ParseLeaf ==
    /\ pc = "parse"
    /\ IsOther(rest)
    /\ LeafMatch(rest).matched
    /\ LET matches == LeafMatch(rest)
           remainingLocationString == substr(rest, matches.length)
           loc == parseLocation_(matches.locationText, matches.accession)
       IN  IF loc = null THEN Throw("Error")
           ELSE IF PushError(nodes, cur) # "" THEN Throw(PushError(nodes, cur))
           ELSE /\ nodes' = push(nodes, cur, Node("leaf", loc))
                /\ IF matches.endCharacter = ")"
                   THEN Recurse(remainingLocationString, nodes[cur].parent_)
                   ELSE IF matches.endCharacter = ","
                   THEN Recurse(remainingLocationString, cur)
                   ELSE /\ pc' = "reduce"
                        /\ depth' = 0
                        /\ UNCHANGED <<input, term, rest, cur, err, result>>
    /\ UNCHANGED seqVars

ParseNoMatch ==
    /\ pc = "parse"
    /\ IsOther(rest)
    /\ ~LeafMatch(rest).matched
    /\ Return
    /\ UNCHANGED seqVars

\* return root.location()
RootLocation ==
    /\ pc = "reduce"
    /\ LET value == location(nodes, 1)
       IN  IF IsThrown(value)
           THEN /\ pc' = "error"
                /\ err' = value[2]
                /\ UNCHANGED result
           ELSE /\ pc' = "done"
                /\ result' = value
                /\ UNCHANGED err
    /\ UNCHANGED <<input, term, rest, nodes, cur, depth>>
    /\ UNCHANGED seqVars

Next ==
    \/ ParseComplement
    \/ ParseJoin
    \/ ParseOrder
    \/ ParseComma
    \/ ParseCloseParen
    \/ ParseLeaf
    \/ ParseNoMatch
    \/ RootLocation

Spec == Init /\ [][Next]_vars

----------------------------------------------------------------------------
(* Seq: setCircular, subseq and oneBasedSubstr_ *)

SeqAlphabet == {"A", "C", "G"}

\* s.substr(from, length)
substrLength(s, from, length) ==
    IF length <= 0 THEN <<>>
    ELSE SubSeq(s, from + 1, IF from + length < Len(s) THEN from + length ELSE Len(s))

\* Variant of oneBasedSubstr_: the start is taken as a 0-based index.
oneBasedSubstr__ZeroBased(start, stop) ==
    substrLength(sequence_, start, stop - start + 1)

oneBasedSubstr_(start, stop) == substrLength(sequence_, start - 1, stop - start + 1)

\* new Seq(optSequence, true): the sequence is taken as it is, not circular
NewSeq(optSequence) == [sequence_ |-> optSequence, isCircular_ |-> FALSE]

\* A Seq after construction: cleaned symbols, not circular.
SeqInit ==
    /\ sequence_ \in StringsOver(SeqAlphabet, MaxSeqLen)
    /\ isCircular_ = FALSE
    /\ ret = <<"none">>
    /\ input = <<>>
    /\ term = NoTerm
    /\ rest = <<>>
    /\ nodes = <<>>
    /\ cur = 0
    /\ pc = "seq"
    /\ err = ""
    /\ result = undefined
    /\ depth = 0

setCircular ==
    /\ pc = "seq"
    /\ \E optCircular \in {"undefined", "true", "false"} :
          isCircular_' = IF optCircular = "undefined" THEN TRUE
                         ELSE optCircular = "true"
    /\ UNCHANGED <<sequence_, ret>>
    /\ UNCHANGED parserVars

\* The outcome of subseq(start, stop): the Seq returned or the assertion
\* that failed.
subseqOutcome(start, stop) ==
    IF ~(start > 0) THEN <<"throw", start, stop, "start must be positive">>
    ELSE IF ~(stop > 0) THEN <<"throw", start, stop, "stop must be positive">>
    ELSE IF ~(start <= Len(sequence_))
        THEN <<"throw", start, stop, "start must be <= length">>
    ELSE IF ~(stop <= Len(sequence_))
        THEN <<"throw", start, stop, "stop must be <= length">>
    ELSE IF ~isCircular_ \/ start <= stop
        THEN IF ~(start <= stop)
             THEN <<"throw", start, stop,
                    "start must be <= stop on non-circular sequences">>
             ELSE <<"return", start, stop, NewSeq(oneBasedSubstr_(start, stop))>>
    ELSE <<"return", start, stop,
           NewSeq(oneBasedSubstr_(start, Len(sequence_)) \o oneBasedSubstr_(1, stop))>>

subseq ==
    /\ pc = "seq"
    /\ \E start \in 0..(Len(sequence_) + 1), stop \in 0..(Len(sequence_) + 1) :
          ret' = subseqOutcome(start, stop)
    /\ UNCHANGED <<sequence_, isCircular_>>
    /\ UNCHANGED parserVars

SeqNext == setCircular \/ subseq

SpecSeq == SeqInit /\ [][SeqNext]_vars

----------------------------------------------------------------------------
(* Properties of parse() *)

Terminated == pc \in {"done", "error"}

IsTerm == term[1] # "none"

\* A term whose complement operators each enclose exactly one term.
RECURSIVE WellFormedTerm(_)
WellFormedTerm(t) ==
    \/ t[1] = "leaf"
    \/ /\ t[1] \in Operators
       /\ t[1] = "complement" => Len(t[2]) = 1
       /\ \A i \in 1..Len(t[2]) : WellFormedTerm(t[2][i])

\* The reference reduction of a term.
RECURSIVE ReferenceReduction(_)
ReferenceReduction(t) ==
    IF t[1] = "leaf" THEN t[2].value
    ELSE IF t[1] = "complement" THEN ComplementLocation(ReferenceReduction(t[2][1]))
    ELSE JoinLocation([i \in 1..Len(t[2]) |-> ReferenceReduction(t[2][i])])

\* C1: for an input that is one grammar term with balanced parentheses and
\* well-formed leaves, parse never throws and returns the reference
\* reduction of the term: complement(X) as ComplementLocation, join and order
\* as JoinLocation of the parts in textual order, a leaf as its Location.
C1_ParseIsReferenceReduction ==
    (IsTerm /\ WellFormedTerm(term)) =>
        /\ pc # "error"
        /\ pc = "done" => result = ReferenceReduction(term)

\* complement(join(A,B)) has been parsed and reduced.
C1_Witness ==
    /\ pc = "done"
    /\ IsTerm
    /\ term[1] = "complement"
    /\ term[2][1][1] = "join"
    /\ Len(term[2][1][2]) = 2
    /\ term[2][1][2][1] # term[2][1][2][2]
    /\ result[1] = "ComplementLocation"

\* C2: parse returns a value only when the root ended with exactly one
\* child, and the value is then that child's reduced value; with any other
\* number of children the call fails.
C2_RootRequiresExactlyOneChild ==
    pc = "done" =>
        /\ Len(nodes[1].children_) = 1
        /\ result = location(nodes, nodes[1].children_[1])

CountUpTo(s, c, k) == Cardinality({i \in 1..k : s[i] = c})

\* A ')' with no open '(' before it, or a '(' that is never closed.
MismatchedParentheses(s) ==
    \/ \E k \in 1..Len(s) : CountUpTo(s, ")", k) > CountUpTo(s, "(", k)
    \/ CountUpTo(s, "(", Len(s)) # CountUpTo(s, ")", Len(s))

\* C3: parse returns no value for an input with mismatched parentheses.
C3_MismatchedParenthesesFail ==
    MismatchedParentheses(input) => pc # "done"

\* One position of the four lexical forms: N, a.b, a^b, <N, >N.
IsPositionText(s) ==
    \/ AllDigits(s)
    \/ \E i \in 2..(Len(s) - 1) :
          /\ s[i] \in {".", "^"}
          /\ AllDigits(SubSeq(s, 1, i - 1))
          /\ AllDigits(SubSeq(s, i + 1, Len(s)))
    \/ Len(s) >= 2 /\ s[1] \in {"<", ">"} /\ AllDigits(SubSeq(s, 2, Len(s)))

\* One position, or two positions separated by a single '..'.
WellFormedLeafText(s) ==
    \/ IsPositionText(s)
    \/ \E i \in 2..(Len(s) - 2) :
          /\ s[i] = "." /\ s[i + 1] = "."
          /\ IsPositionText(SubSeq(s, 1, i - 1))
          /\ IsPositionText(SubSeq(s, i + 2, Len(s)))

\* The input without its accession prefix.
PositionText(s) ==
    IF \E a \in AccessionPrefixes : a # <<>> /\ StartsWith(s, a)
    THEN substr(s, Len(CHOOSE a \in AccessionPrefixes : a # <<>> /\ StartsWith(s, a)))
    ELSE s

\* The input is a single leaf: a non-empty text over < > 0-9 . ^ after an
\* optional accession prefix.
IsLeafInput(s) ==
    /\ Len(PositionText(s)) > 0
    /\ \A i \in 1..Len(PositionText(s)) : PositionText(s)[i] \in LocationChars

\* C4: a leaf whose position text is neither one position nor two positions
\* separated by a single '..' makes parse throw; no Location is built from
\* part of its text.
C4_MalformedLeafThrows ==
    (IsLeafInput(input) /\ ~WellFormedLeafText(PositionText(input))) =>
        /\ pc # "done"
        /\ \A i \in 1..Len(nodes) : nodes[i].kind # "leaf"

\* C5: parse("complement(A,B)") with well-formed A and B returns no value;
\* it throws the structural error while the Complement node holds its first
\* child only.
C5_ComplementSecondChildFails ==
    (/\ IsTerm
     /\ term[1] = "complement"
     /\ Len(term[2]) = 2
     /\ WellFormedTerm(term[2][1])
     /\ WellFormedTerm(term[2][2])) =>
        /\ pc \notin {"reduce", "done"}
        /\ pc = "error" =>
              /\ err = ComplementPushMessage
              /\ nodes[2].kind = "complement"
              /\ nodes[2].children_ = <<3>>

\* complement(join(..),B) was rejected at the push of B.
C5_Witness ==
    /\ pc = "error"
    /\ IsTerm
    /\ term[1] = "complement"
    /\ Len(term[2]) = 2
    /\ term[2][1][1] = "join"
    /\ WellFormedTerm(term[2][1])
    /\ WellFormedTerm(term[2][2])
    /\ Len(nodes) > 3

\* The accession of a leaf input, undefined when it has no prefix.
AccessionOf(s) ==
    IF \E a \in AccessionPrefixes : a # <<>> /\ StartsWith(s, a)
    THEN SubSeq(s, 1, Len(s) - Len(PositionText(s)) - 1)
    ELSE undefined

C7_ExactRangeLeaf ==
    LET t == PositionText(input)
    IN  \A i \in 2..(Len(t) - 2) :
          (/\ IsLeafInput(input)
           /\ t[i] = "." /\ t[i + 1] = "."
           /\ AllDigits(SubSeq(t, 1, i - 1))
           /\ AllDigits(SubSeq(t, i + 2, Len(t)))
           /\ 1 <= parseInt(SubSeq(t, 1, i - 1))
           /\ parseInt(SubSeq(t, 1, i - 1)) <= parseInt(SubSeq(t, i + 2, Len(t)))) =>
              /\ pc # "error"
              /\ pc = "done" =>
                    result = Location(LocationPoint(parseInt(SubSeq(t, 1, i - 1))),
                                      LocationPoint(parseInt(SubSeq(t, i + 2, Len(t)))),
                                      AccessionOf(input))

\* "A.1:1..2" has been parsed into a Location with its accession.
C7_Witness ==
    /\ pc = "done"
    /\ input = <<"A", ".", "1", ":", "1", ".", ".", "2">>
    /\ result[4] = <<"A", ".", "1">>

\* C8: a leaf that is one Exact, Between or Bounded position without '..'
\* gives a Location whose stop is its start, the endpoints of a^b and a.b
\* in the order written.
C8_SinglePositionLeaf ==
    LET t == PositionText(input)
        exact == Location(LocationPoint(parseInt(t)), LocationPoint(parseInt(t)),
                          AccessionOf(input))
    IN  /\ (IsLeafInput(input) /\ AllDigits(t)) =>
              /\ pc # "error"
              /\ pc = "done" => result = exact
        /\ \A i \in 2..(Len(t) - 1) :
              (/\ IsLeafInput(input)
               /\ t[i] \in {".", "^"}
               /\ AllDigits(SubSeq(t, 1, i - 1))
               /\ AllDigits(SubSeq(t, i + 1, Len(t)))) =>
                  LET a == parseInt(SubSeq(t, 1, i - 1))
                      b == parseInt(SubSeq(t, i + 1, Len(t)))
                      point == IF t[i] = "^" THEN BetweenLocationPoint(a, b)
                               ELSE BoundedLocationPoint(a, b)
                  IN  /\ pc # "error"
                      /\ pc = "done" =>
                            result = Location(point, point, AccessionOf(input))

\* "2^1" has been parsed into a Location.
C8_Witness ==
    /\ pc = "done"
    /\ input = <<"2", "^", "1">>
    /\ result[1] = "Location"

----------------------------------------------------------------------------
(* Properties of Seq.subseq *)

\* C9: subseq(start, stop) with both arguments in 1..length returns bases
\* start..stop when start <= stop, bases start..length followed by bases
\* 1..stop when start > stop on a circular sequence, and fails when
\* start > stop on a non-circular sequence; the receiver is unchanged.
C9_Subseq ==
    [][ret' # ret =>
        LET start == ret'[2]
            stop == ret'[3]
            L == Len(sequence_)
        IN  /\ sequence_' = sequence_
            /\ isCircular_' = isCircular_
            /\ (start \in 1..L /\ stop \in 1..L) =>
                  /\ start <= stop =>
                        /\ ret'[1] = "return"
                        /\ ret'[4].sequence_ = SubSeq(sequence_, start, stop)
                        /\ Len(ret'[4].sequence_) = stop - start + 1
                  /\ (start > stop /\ isCircular_) =>
                        /\ ret'[1] = "return"
                        /\ ret'[4].sequence_ =
                              SubSeq(sequence_, start, L) \o SubSeq(sequence_, 1, stop)
                        /\ Len(ret'[4].sequence_) = L - start + 1 + stop
                  /\ (start > stop /\ ~isCircular_) => ret'[1] = "throw"]_vars

\* subseq has wrapped around the origin of a circular sequence.
C9_Witness ==
    /\ pc = "seq"
    /\ isCircular_
    /\ ret[1] = "return"
    /\ ret[2] > ret[3]
    /\ Len(ret[4].sequence_) = Len(sequence_) - ret[2] + 1 + ret[3]

----------------------------------------------------------------------------
(* Unmatched input *)

\* The text begins with none of 'complement(', 'join(', 'order(', ',', ')'
\* and does not match the leaf pattern.
Unmatched(s) ==
    /\ ~StartsWith(s, ComplementPrefix)
    /\ ~StartsWith(s, JoinPrefix)
    /\ ~StartsWith(s, OrderPrefix)
    /\ ~FirstIs(s, ",")
    /\ ~FirstIs(s, ")")
    /\ ~LeafMatch(s).matched

ReductionErrors ==
    {"AssertionError",
     "complement nodes must have one and only have one child",
     "join nodes must have at least one child",
     "order nodes must have at least one child"}

\* C10: at a step whose remaining input is unmatched, parsing stops without
\* an error: nothing more is consumed, no node is created, and parse returns
\* the reduction of the nodes attached so far, failing only if that
\* reduction fails.
C10_UnmatchedInputStopsSilently ==
    /\ [][(pc = "parse" /\ Unmatched(rest)) =>
            (pc' = "reduce" /\ err' = "" /\ rest' = rest /\ nodes' = nodes)]_vars
    /\ []((pc = "done" /\ Unmatched(rest)) => result = location(nodes, 1))
    /\ []((pc = "error" /\ Unmatched(rest)) => err \in ReductionErrors)

\* "join(1,x" stopped at "x" and was reduced to the join of the one leaf.
C10_Witness ==
    /\ pc = "done"
    /\ input = JoinPrefix \o <<"1", ",", "x">>
    /\ rest = <<"x">>
    /\ result = JoinLocation(<<Location(LocationPoint(1), LocationPoint(1), undefined)>>)

----------------------------------------------------------------------------
(* Recursion depth *)

\* The operator nesting depth of a text: the largest number of '(' open at
\* any point of it.
NestingDepth(s) ==
    LET open(k) == CountUpTo(s, "(", k) - CountUpTo(s, ")", k)
        levels == {0} \cup {open(k) : k \in 1..Len(s)}
    IN  CHOOSE n \in levels : \A l \in levels : l <= n

\* C11 as stated: the number of nested activations stays within the bound
\* the operator nesting alone accounts for (one activation for the call of
\* parse, one for entering and one for leaving each nesting level), however
\* many comma-separated siblings an operator has.  Stated for inputs that
\* are well-formed grammar terms, the case the claim's example is about.
C11_DepthBoundedByNesting ==
    (IsTerm /\ WellFormedTerm(term)) => depth <= 2 * NestingDepth(input) + 1

\* C11 as amended: the number of nested activations never exceeds the number
\* of characters consumed so far plus one; every operator prefix, ',', ')'
\* and leaf consumed adds an activation.
C11_DepthBoundedByConsumedInput ==
    /\ depth <= Len(input) - Len(rest) + 1
    /\ depth <= Len(input) + 1

\* In join(A,B,C) the third sibling is parsed deeper than the nesting bound.
C11_Witness ==
    /\ pc = "parse"
    /\ IsTerm
    /\ term[1] = "join"
    /\ Len(term[2]) = 3
    /\ NestingDepth(input) = 1
    /\ depth = 5

----------------------------------------------------------------------------
(* Shape of the parse tree *)

\* The proper ancestors of node i, following parent pointers at most fuel
\* times.
RECURSIVE Ancestors(_, _, _)
Ancestors(ns, i, fuel) ==
    IF i = 0 \/ fuel = 0 \/ ns[i].parent_ = 0 THEN {}
    ELSE {ns[i].parent_} \cup Ancestors(ns, ns[i].parent_, fuel - 1)

\* The places <<p, k>> where node i occurs as the k-th child of node p.
Occurrences(ns, i) ==
    {o \in (1..Len(ns)) \X (1..Len(ns)) :
        o[2] <= Len(ns[o[1]].children_) /\ ns[o[1]].children_[o[2]] = i}

\* Exclusive ownership: the root is nobody's child, every other node occurs
\* once, in the children list of the node its parent pointer names, and no
\* node is its own ancestor.
ExclusiveOwnership(ns) ==
    /\ ns[1].parent_ = 0
    /\ Occurrences(ns, 1) = {}
    /\ \A i \in 2..Len(ns) :
          /\ Cardinality(Occurrences(ns, i)) = 1
          /\ \A o \in Occurrences(ns, i) : o[1] = ns[i].parent_
    /\ \A i \in 1..Len(ns) : i \notin Ancestors(ns, i, Len(ns))

\* Node i is the current parent or one of its ancestors: its scope is open.
ScopeOpen(ns, parentNode, i) ==
    i = parentNode \/ i \in Ancestors(ns, parentNode, Len(ns))

\* C12: at every step the parse tree has exclusive ownership; a children
\* list changes only by one append at its end, on the current parent, while
\* parsing; a scope that is no longer open is never reopened, so it gets no
\* further child; nothing changes once reduction has started.
C12_ExclusiveOwnershipTree ==
    /\ [](ExclusiveOwnership(nodes))
    /\ [][/\ Len(nodes') >= Len(nodes)
          /\ pc # "parse" => nodes' = nodes
          /\ \A i \in 1..Len(nodes) :
                /\ nodes'[i].kind = nodes[i].kind
                /\ nodes'[i].parent_ = nodes[i].parent_
                /\ nodes'[i].location_ = nodes[i].location_
                /\ \/ nodes'[i].children_ = nodes[i].children_
                   \/ /\ i = cur
                      /\ Len(nodes') = Len(nodes) + 1
                      /\ nodes'[i].children_ =
                            Append(nodes[i].children_, Len(nodes) + 1)
                /\ ~ScopeOpen(nodes, cur, i) => ~ScopeOpen(nodes', cur', i)]_vars

\* join(complement(A),B): B was appended to the join after the complement
\* scope had been closed, and the tree has been reduced.
C12_Witness ==
    /\ pc = "done"
    /\ Len(nodes) = 5
    /\ nodes[2].kind = "join"
    /\ nodes[3].kind = "complement"
    /\ nodes[2].children_ = <<3, 5>>
    /\ nodes[3].children_ = <<4>>

----------------------------------------------------------------------------
(* Termination *)

\* The variant of a parse call: the characters still to be consumed while
\* parsing, then the reduction, then nothing.
Variant ==
    CASE pc = "parse" -> Len(rest) + 2
      [] pc = "reduce" -> 1
      [] OTHER -> 0

\* C13: every recursive call of recursivelyParse_ gets a strictly shorter
\* suffix of its caller's text, so at most as many recursive calls are made
\* as the input has characters; every step of a parse call lowers a
\* variant that is a natural number, so no parse call runs forever: it ends
\* by returning a value or throwing.
C13_ParseTerminates ==
    /\ [][/\ Variant' < Variant
          /\ Variant' >= 0
          /\ (pc = "parse" /\ pc' = "parse") =>
                /\ Len(rest') < Len(rest)
                /\ rest' = SubSeq(rest, Len(rest) - Len(rest') + 1, Len(rest))
                /\ depth' = depth + 1]_vars
    /\ [](pc = "parse" => depth - 1 <= Len(input))

\* A parse of a term with two operators and two leaves has ended after
\* consuming all of its input.
C13_Witness ==
    /\ pc = "done"
    /\ IsTerm
    /\ Len(nodes) = 5
    /\ rest = <<>>
    /\ Len(input) > 10

----------------------------------------------------------------------------
(* The current parent *)

\* The part of the input consumed so far.
Consumed == SubSeq(input, 1, Len(input) - Len(rest))

\* C14: the node passed as the current parent is the root or an operator
\* node, or it is absent after a ')' that closes no operator; it is never a
\* leaf, and the error of a push onto a leaf is never thrown.
C14_ParentIsNeverLeaf ==
    /\ cur # 0 => nodes[cur].kind \in {"root", "complement", "join", "order"}
    /\ cur # 0 => nodes[cur].kind # "leaf"
    /\ cur = 0 =>
          \E k \in 1..Len(Consumed) :
              /\ Consumed[k] = ")"
              /\ CountUpTo(Consumed, ")", k) > CountUpTo(Consumed, "(", k)
    /\ err # LocationPushMessage

\* A leaf followed by ',' has been attached to a join, which stays the
\* current parent for the next sibling.
C14_Witness ==
    /\ pc = "parse"
    /\ cur > 1
    /\ nodes[cur].kind = "join"
    /\ nodes[Len(nodes)].kind = "leaf"
    /\ nodes[Len(nodes)].parent_ = cur
    /\ Len(rest) > 0

====
